---- MODULE Spec2Model ----
(***************************************************************************)
(* devrunner: runner resolution, script validation and dispatch (main.rs), *)
(* the detectors (detectors/*.rs) and the fuzzy matcher (fuzzy.rs).        *)
(*                                                                         *)
(* Strings are sequences of characters.  A character is a one-element tag; *)
(* "e_acute" stands for U+00E9, one code point that UTF-8 encodes in two   *)
(* bytes, so that str::len() (bytes) and chars().count() (code points)     *)
(* differ.  f64 scores are modelled as exact fractions [n, d]: for the     *)
(* small integers used here f64 division and subtraction keep both the     *)
(* order and the equality of the fractions.                                *)
(***************************************************************************)
EXTENDS Integers, Sequences, FiniteSets, TLC

\* ------------------------------------------------------------------ bounds
MaxLen == 3

\* ------------------------------------------------------------------ strings
Chars == {"a", "A", "e_acute"}

Strs == UNION {[1..n -> Chars] : n \in 0..MaxLen}

\* str::len(): the length in UTF-8 bytes.
Utf8Len(c) == IF c = "e_acute" THEN 2 ELSE 1

RECURSIVE ByteLen(_)
ByteLen(s) == IF s = <<>> THEN 0 ELSE Utf8Len(Head(s)) + ByteLen(Tail(s))

\* char::to_lowercase on the modelled alphabet.
ToLowerChar(c) == IF c = "A" THEN "a" ELSE c

to_lowercase(s) == [i \in 1..Len(s) |-> ToLowerChar(s[i])]

Max2(x, y) == IF x >= y THEN x ELSE y

Min2(x, y) == IF x <= y THEN x ELSE y

\* ------------------------------------------------------------------ fuzzy.rs
\* Fault: equal characters cost a substitution too.
SubstCostAlwaysOne(ca, cb) == 1

SubstCost(ca, cb) == IF ca = cb THEN 0 ELSE 1

\* Fault: the insertion case is left out of the minimum.
MatrixCellNoInsertion(up, left, diag, cost) == Min2(up + 1, diag + cost)

MatrixCell(up, left, diag, cost) == Min2(Min2(up + 1, left + 1), diag + cost)

levenshtein_distance(s, t) ==
    LET len_a == Len(s)
        len_b == Len(t)
        matrix[i \in 0..len_a, j \in 0..len_b] ==
            IF j = 0 THEN i
            ELSE IF i = 0 THEN j
            ELSE MatrixCell(matrix[i - 1, j], matrix[i, j - 1],
                            matrix[i - 1, j - 1], SubstCost(s[i], t[j]))
    IN  IF len_a = 0 THEN len_b
        ELSE IF len_b = 0 THEN len_a
        ELSE matrix[len_a, len_b]

\* Scores: the fraction n / d with d > 0.
One == [n |-> 1, d |-> 1]

ScoreGeq(x, y) == x.n * y.d >= y.n * x.d

ScoreGt(x, y) == x.n * y.d > y.n * x.d

ScoreEq(x, y) == x.n * y.d = y.n * x.d

similarity_score(s, t) ==
    LET distance == levenshtein_distance(s, t)
        max_len == Max2(ByteLen(s), ByteLen(t))
    IN  IF max_len = 0 THEN One
        ELSE [n |-> max_len - distance, d |-> max_len]

\* Fault: the comparator's operands swapped, which sorts ascending.
InsertAsc(sorted, m) ==
    LET k == Cardinality({i \in 1..Len(sorted) : ScoreGeq(m.score, sorted[i].score)})
    IN  SubSeq(sorted, 1, k) \o <<m>> \o SubSeq(sorted, k + 1, Len(sorted))

\* Where the stable sort_by (descending score) places m among the sorted
\* elements that precede it in the input: behind every element whose score is
\* not smaller.
InsertDesc(sorted, m) ==
    LET k == Cardinality({i \in 1..Len(sorted) : ScoreGeq(sorted[i].score, m.score)})
    IN  SubSeq(sorted, 1, k) \o <<m>> \o SubSeq(sorted, k + 1, Len(sorted))

RECURSIVE SortByScoreDesc(_)
SortByScoreDesc(ms) ==
    IF ms = <<>> THEN <<>>
    ELSE InsertDesc(SortByScoreDesc(SubSeq(ms, 1, Len(ms) - 1)), ms[Len(ms)])

Keeps(score, threshold) == ScoreGeq(score, threshold)

find_similar_scripts(input, available_scripts, threshold) ==
    LET input_lower == to_lowercase(input)
        scored == [i \in 1..Len(available_scripts) |->
                     [script |-> available_scripts[i],
                      score  |-> similarity_score(input_lower,
                                                  to_lowercase(available_scripts[i]))]]
        matches == SelectSeq(scored, LAMBDA m : Keeps(m.score, threshold))
    IN  SortByScoreDesc(matches)

Half == [n |-> 1, d |-> 2]

None == [some |-> FALSE]

Some(v) == [some |-> TRUE, val |-> v]

suggest_script(input, available_scripts) ==
    LET matches == find_similar_scripts(input, available_scripts, Half)
    IN  IF matches = <<>> THEN None ELSE Some(matches[1].script)

\* Fault: all for any.
is_exact_match_all(input, available_scripts) ==
    \A i \in 1..Len(available_scripts) :
        to_lowercase(available_scripts[i]) = to_lowercase(input)

is_exact_match(input, available_scripts) ==
    LET input_lower == to_lowercase(input)
    IN  \E i \in 1..Len(available_scripts) :
            to_lowercase(available_scripts[i]) = input_lower

\* ------------------------------------------------------------------ detectors
\* A directory is the set of the names of the files in it.
Markers == {"package.json", "Package.swift", "build.zig", "Makefile", "makefile"}

DetectedRunner(name, detected_file, ecosystem, priority) ==
    [name |-> name, detected_file |-> detected_file,
     ecosystem |-> ecosystem, priority |-> priority]

NpmPriority == 4

SwiftPriority == 19

ZigPriority == 20

\* Fault: make registered ahead of swift and zig.
MakePriorityBelowSwift == SwiftPriority - 1

MakePriority == 21

\* The Node.js detector, after the specification (sections 4.3 and 8):
\* package.json marks an npm project, ahead of every generic runner.
node_detect(dir) ==
    IF "package.json" \in dir
    THEN <<DetectedRunner("npm", "package.json", "NodeJs", NpmPriority)>>
    ELSE <<>>

swift_detect(dir) ==
    IF "Package.swift" \in dir
    THEN <<DetectedRunner("swift", "Package.swift", "Swift", SwiftPriority)>>
    ELSE <<>>

zig_detect(dir) ==
    IF "build.zig" \in dir
    THEN <<DetectedRunner("zig", "build.zig", "Zig", ZigPriority)>>
    ELSE <<>>

\* read_dir yields the entries in no particular order and the loop stops at the
\* first entry named Makefile or makefile: makefile_first says which of the two
\* read_dir yields first when the directory holds both.
make_detect(dir, makefile_first) ==
    LET hits == dir \cap {"Makefile", "makefile"}
        name == IF hits = {"Makefile", "makefile"}
                THEN (IF makefile_first THEN "makefile" ELSE "Makefile")
                ELSE CHOOSE h \in hits : TRUE
    IN  IF hits = {} THEN <<>>
        ELSE <<DetectedRunner("make", name, "Generic", MakePriority)>>

\* u8::to_ascii_lowercase over the tool names used here.
AsciiLower(s) ==
    CASE s = "MAKE" -> "make"
      [] s = "Swift" -> "swift"
      [] OTHER -> s

eq_ignore_ascii_case(x, y) == AsciiLower(x) = AsciiLower(y)

IsIgnored(ignore_list, name) ==
    \E i \in ignore_list : eq_ignore_ascii_case(i, name)

detect_all(dir, makefile_first, ignore_list) ==
    SelectSeq(node_detect(dir) \o swift_detect(dir) \o zig_detect(dir)
                  \o make_detect(dir, makefile_first),
              LAMBDA r : ~IsIgnored(ignore_list, r.name))

\* ------------------------------------------------------------------ errors
SUCCESS == 0

GENERIC_ERROR == 1

RUNNER_NOT_FOUND == 2

Ok(v) == [ok |-> TRUE, val |-> v]

Err(e) == [ok |-> FALSE, err |-> e]

\* RunError::exit_code
exit_code_of(e) == IF e = "RunnerNotFound" THEN RUNNER_NOT_FOUND ELSE GENERIC_ERROR

\* ------------------------------------------------------------------ runner
\* A directory tree is the chain from the start directory up to the filesystem
\* root: fs[k + 1] is the directory k levels above the start directory, and
\* the last one has no parent.
RECURSIVE search_from(_, _, _, _, _)
search_from(fs, makefile_first, level, max, ignore) ==
    LET found == detect_all(fs[level + 1], makefile_first, ignore)
    IN  IF found # <<>> THEN Ok([runners |-> found, dir |-> level])
        ELSE IF level < max /\ level + 1 < Len(fs)
             THEN search_from(fs, makefile_first, level + 1, max, ignore)
             ELSE Err("RunnerNotFound")

\* Fault: the walk goes on to the farthest level that has a match.
search_runners_farthest(fs, makefile_first, max, ignore) ==
    LET top == Min2(max, Len(fs) - 1)
        hits == {k \in 0..top : detect_all(fs[k + 1], makefile_first, ignore) # <<>>}
    IN  IF hits = {} THEN Err("RunnerNotFound")
        ELSE LET k == CHOOSE h \in hits : \A g \in hits : g <= h
             IN  Ok([runners |-> detect_all(fs[k + 1], makefile_first, ignore),
                     dir |-> k])

search_runners(fs, makefile_first, max, ignore) ==
    search_from(fs, makefile_first, 0, max, ignore)

\* A stable sort by ascending priority.
InsertByPriority(sorted, r) ==
    LET k == Cardinality({i \in 1..Len(sorted) : sorted[i].priority <= r.priority})
    IN  SubSeq(sorted, 1, k) \o <<r>> \o SubSeq(sorted, k + 1, Len(sorted))

RECURSIVE SortByPriority(_)
SortByPriority(rs) ==
    IF rs = <<>> THEN <<>>
    ELSE InsertByPriority(SortByPriority(SubSeq(rs, 1, Len(rs) - 1)), rs[Len(rs)])

\* Fault: the sort read from the wrong end.
check_conflicts_last(rs) ==
    IF rs = <<>> THEN Err("NoRunnerAvailable")
    ELSE Ok(SortByPriority(rs)[Len(rs)])

check_conflicts(rs) ==
    IF rs = <<>> THEN Err("NoRunnerAvailable")
    ELSE Ok(SortByPriority(rs)[1])

\* What the subprocess capability may report for a spawned child: a spawn
\* error, or the child's exit status (an exit code, or none when a signal
\* ended the child).
ChildCodes == {0, 3, 255}

Exited(code) == [kind |-> "exited", code |-> code]

Signaled == [kind |-> "signaled", code |-> -1]

NoStatus == [kind |-> "none", code |-> -1]

SpawnOutcomes == {Err("SpawnFailure")} \cup {Ok(Exited(c)) : c \in ChildCodes}
                     \cup {Ok(Signaled)}

\* execute: a dry run describes the command and runs nothing; otherwise the
\* child is spawned and its status returned as it is.
execute(dry_run_flag, outcome) ==
    IF dry_run_flag
    THEN [result |-> Ok(Exited(SUCCESS)), invoked |-> FALSE]
    ELSE [result |-> outcome, invoked |-> TRUE]

\* ------------------------------------------------------------------ scripts.rs
\* The content of a package.json: whether it reads and parses as JSON, and its
\* top-level "scripts" value: absent, not an object, or an object (its entries
\* in the order the map iterates them; a value is a JSON string or not).
Entry(name) == [name |-> name, is_str |-> TRUE, text |-> "run"]

PackageJsons ==
    {[parses |-> FALSE, kind |-> "absent", entries |-> <<>>],
     [parses |-> TRUE, kind |-> "absent", entries |-> <<>>],
     [parses |-> TRUE, kind |-> "not_object", entries |-> <<>>],
     [parses |-> TRUE, kind |-> "object", entries |-> <<>>],
     [parses |-> TRUE, kind |-> "object", entries |-> <<Entry(<<"a">>)>>],
     [parses |-> TRUE, kind |-> "object",
      entries |-> <<Entry(<<"A">>), Entry(<<"a", "e_acute">>)>>]}

ProjectScript(name, command) == [name |-> name, command |-> command]

\* Fault: an object without keys taken for no scripts object.
parse_package_json_scripts_keyed(dir, file) ==
    IF "package.json" \notin dir \/ ~file.parses \/ file.kind # "object"
           \/ file.entries = <<>>
    THEN None
    ELSE Some([scripts |-> [i \in 1..Len(file.entries) |->
                              ProjectScript(file.entries[i].name, "")],
               source_file |-> "package.json"])

parse_package_json_scripts(dir, file) ==
    IF "package.json" \notin dir THEN None
    ELSE IF ~file.parses THEN None
    ELSE IF file.kind # "object" THEN None
    ELSE Some([scripts |-> [i \in 1..Len(file.entries) |->
                              ProjectScript(file.entries[i].name,
                                  IF file.entries[i].is_str
                                  THEN file.entries[i].text ELSE "")],
               source_file |-> "package.json"])

\* Only the NodeJs arm is reached from main, which asks for the scripts of a
\* Node.js runner alone.
get_scripts_for_runner(r, dir, file) ==
    IF r.ecosystem = "NodeJs" THEN parse_package_json_scripts(dir, file) ELSE None

\* The content of a text file: whether read_to_string succeeds, and the
\* characters read.
TextFile(reads, content) == [reads |-> reads, content |-> content]

NoText == TextFile(FALSE, <<>>)

\* str::lines: the text between the newlines, without a last empty line.
RECURSIVE str_lines(_)
str_lines(content) ==
    IF content = <<>> THEN <<>>
    ELSE LET ends == {i \in 1..Len(content) : content[i] = "nl"}
             k == IF ends = {} THEN Len(content) + 1
                  ELSE CHOOSE i \in ends : \A j \in ends : i <= j
         IN  <<SubSeq(content, 1, k - 1)>>
                 \o str_lines(SubSeq(content, k + 1, Len(content)))

Whitespace == {"space", "tab", "nl"}

\* str::trim
trim(s) ==
    LET inked == {i \in 1..Len(s) : s[i] \notin Whitespace}
    IN  IF inked = {} THEN <<>>
        ELSE SubSeq(s, CHOOSE i \in inked : \A j \in inked : i <= j,
                       CHOOSE i \in inked : \A j \in inked : i >= j)

starts_with(s, c) == Len(s) > 0 /\ s[1] = c

contains(s, c) == \E i \in 1..Len(s) : s[i] = c

\* str::find: the first position of c in s, 0 where there is none.
find(s, c) ==
    IF contains(s, c)
    THEN CHOOSE i \in 1..Len(s) : s[i] = c /\ \A j \in 1..(i - 1) : s[j] # c
    ELSE 0

\* scripts.rs 61: the lines the filter lets through
NotIndentedNorComment(line) ==
    ~starts_with(line, "tab") /\ ~starts_with(line, "space")
        /\ ~starts_with(line, "hash")

\* scripts.rs 64-65: the text before the first colon, trimmed
TargetOf(line) == trim(SubSeq(line, 1, find(line, "colon") - 1))

\* Fault: the special targets are let through.
IsTargetLineDotted(line) ==
    /\ find(line, "colon") # 0
    /\ TargetOf(line) # <<>>
    /\ ~contains(TargetOf(line), "equals")
    /\ ~contains(TargetOf(line), "dollar")

\* scripts.rs 64-78: the line yields a script
IsTargetLine(line) ==
    /\ find(line, "colon") # 0
    /\ TargetOf(line) # <<>>
    /\ ~starts_with(TargetOf(line), "dot")
    /\ ~contains(TargetOf(line), "equals")
    /\ ~contains(TargetOf(line), "dollar")

MakeCommand(target) == <<"m", "a", "k", "e", "space">> \o target

\* file is the content of the file at makefile_path.
parse_makefile_targets(dir, file) ==
    IF "Makefile" \notin dir /\ "makefile" \notin dir THEN None
    ELSE IF ~file.reads THEN None
    ELSE LET kept == SelectSeq(str_lines(file.content), NotIndentedNorComment)
             targets == SelectSeq(kept, IsTargetLine)
             scripts == [i \in 1..Len(targets) |->
                           ProjectScript(TargetOf(targets[i]),
                                         MakeCommand(TargetOf(targets[i])))]
         IN  IF scripts = <<>> THEN None
             ELSE Some([scripts |-> scripts, source_file |-> "Makefile"])

CargoCommands == <<"build", "test", "run", "check", "clippy", "fmt", "doc", "bench">>

parse_cargo_targets(dir) ==
    IF "Cargo.toml" \notin dir THEN None
    ELSE Some([scripts |-> [i \in 1..Len(CargoCommands) |->
                              ProjectScript(CargoCommands[i],
                                            <<"cargo", CargoCommands[i]>>)],
               source_file |-> "Cargo.toml"])

\* The content of a pyproject.toml: whether it reads and parses as TOML, and
\* its tool.poetry.scripts and project.scripts values, each absent, not a
\* table, or a table (its entries in the order the table iterates them).
TomlAbsent == [kind |-> "absent", entries |-> <<>>]

TomlValues ==
    {TomlAbsent,
     [kind |-> "not_table", entries |-> <<>>],
     [kind |-> "table", entries |-> <<>>],
     [kind |-> "table", entries |-> <<Entry(<<"a">>)>>]}

NoToml == [parses |-> FALSE, poetry |-> TomlAbsent, project |-> TomlAbsent]

PyProjects ==
    {NoToml} \cup {[parses |-> TRUE, poetry |-> po, project |-> pr] :
                      po \in TomlValues, pr \in TomlValues}

\* scripts.rs 132-141 and 144-153: what one scripts value adds
TableScripts(value) ==
    IF value.kind # "table" THEN <<>>
    ELSE [i \in 1..Len(value.entries) |->
            ProjectScript(value.entries[i].name,
                          IF value.entries[i].is_str
                          THEN value.entries[i].text ELSE "")]

parse_pyproject_scripts(dir, file) ==
    IF "pyproject.toml" \notin dir THEN None
    ELSE IF ~file.parses THEN None
    ELSE LET scripts == TableScripts(file.poetry) \o TableScripts(file.project)
         IN  IF scripts = <<>> THEN None
             ELSE Some([scripts |-> scripts, source_file |-> "pyproject.toml"])

\* scripts.rs 180-191: the push of one strategy's result
Pushed(found) == IF found.some THEN <<found.val>> ELSE <<>>

discover_all_scripts(dir, package, pyproject, makefile) ==
    Pushed(parse_package_json_scripts(dir, package))
        \o Pushed(parse_cargo_targets(dir))
        \o Pushed(parse_pyproject_scripts(dir, pyproject))
        \o Pushed(parse_makefile_targets(dir, makefile))

\* ------------------------------------------------------------------ main.rs
MaxDepth == 2

MaxLevels == 2

Commands == {<<"a">>, <<"A">>, <<"e_acute">>}

IgnoreLists == SUBSET {"MAKE", "swift"}

DispatchMarkers == {"package.json", "Package.swift", "Makefile"}

Trees(markers) == UNION {[1..n -> SUBSET markers] : n \in 1..MaxDepth}

\* The two read_dir orders matter only where a directory holds both names.
ReadDirOrders(fs) ==
    IF \E k \in 1..Len(fs) : {"Makefile", "makefile"} \subseteq fs[k]
    THEN BOOLEAN ELSE {FALSE}

NoRunner == DetectedRunner("", "", "", 0)

NoFile == [parses |-> FALSE, kind |-> "absent", entries |-> <<>>]

NoCall == [fn |-> "none"]

VARIABLES
    tree,                \* the directories from the start directory to the root
    makefile_first,      \* read_dir yields makefile before Makefile
    max_levels,          \* cli.levels
    ignore_list,         \* config.ignore_tools and cli.ignore
    pc,                  \* where main is
    runners,             \* search_runners' matches
    working_dir,         \* search_runners' directory, as a level
    runner,              \* check_conflicts' choice
    command,             \* the requested command, alias resolved
    package_json,        \* the content of package.json in working_dir
    pyproject_toml,      \* the content of pyproject.toml in the project directory
    makefile_text,       \* the content of the makefile parse_makefile_targets reads
    dry_run,             \* cli.dry_run
    execute_called,      \* execute has been called
    subprocess_invoked,  \* execute has invoked the subprocess capability
    exit_status,         \* result.exit_status
    update_spawned,      \* update::spawn_background_update has been called
    exit_code,           \* the code process::exit was called with
    failure,             \* the error main exited on, "none" otherwise
    argA, argB,          \* the arguments of a distance or similarity call
    query, available, threshold,  \* the arguments of a ranking call
    call                 \* the last call of a pure function and what it returned

vars == <<tree, makefile_first, max_levels, ignore_list, pc, runners, working_dir,
          runner, command, package_json, dry_run, execute_called,
          subprocess_invoked, exit_status, update_spawned, exit_code, failure,
          argA, argB, query, available, threshold, call, pyproject_toml,
          makefile_text>>

fsVars == <<tree, makefile_first, max_levels, ignore_list, pyproject_toml,
            makefile_text>>

\* Nothing is read of the files only script discovery reads.
ScriptFilesUnread ==
    /\ pyproject_toml = NoToml
    /\ makefile_text = NoText

fuzzyVars == <<argA, argB, query, available, threshold, call>>

MainStart ==
    /\ pc = "start"
    /\ runners = <<>>
    /\ working_dir = 0
    /\ runner = NoRunner
    /\ command = <<>>
    /\ package_json = NoFile
    /\ dry_run = FALSE
    /\ execute_called = FALSE
    /\ subprocess_invoked = FALSE
    /\ exit_status = NoStatus
    /\ update_spawned = FALSE
    /\ exit_code = -1
    /\ failure = "none"

FuzzyIdle ==
    /\ argA = <<>>
    /\ argB = <<>>
    /\ query = <<>>
    /\ available = <<>>
    /\ threshold = One
    /\ call = NoCall

InitTree(markers) ==
    /\ tree \in Trees(markers)
    /\ makefile_first \in ReadDirOrders(tree)
    /\ max_levels \in 0..MaxLevels
    /\ ignore_list \in IgnoreLists
    /\ ScriptFilesUnread

Init == InitTree(DispatchMarkers) /\ MainStart /\ FuzzyIdle

\* process::exit(code)
Exit(code, why) ==
    /\ pc' = "exit"
    /\ exit_code' = code
    /\ failure' = why

\* main.rs 104-117
SearchStep ==
    /\ pc = "start"
    /\ LET found == search_runners(tree, makefile_first, max_levels, ignore_list)
       IN  IF found.ok
           THEN /\ runners' = found.val.runners
                /\ working_dir' = found.val.dir
                /\ pc' = "searched"
                /\ UNCHANGED <<exit_code, failure>>
           ELSE /\ Exit(exit_code_of(found.err), found.err)
                /\ UNCHANGED <<runners, working_dir>>
    /\ UNCHANGED <<fsVars, fuzzyVars, runner, command, package_json, dry_run,
                   execute_called, subprocess_invoked, exit_status, update_spawned>>

\* main.rs 119-126
SelectStep ==
    /\ pc = "searched"
    /\ LET picked == check_conflicts(runners)
       IN  IF picked.ok
           THEN /\ runner' = picked.val
                /\ pc' = "selected"
                /\ UNCHANGED <<exit_code, failure>>
           ELSE /\ Exit(exit_code_of(picked.err), picked.err)
                /\ UNCHANGED runner
    /\ UNCHANGED <<fsVars, fuzzyVars, runners, working_dir, command, package_json,
                   dry_run, execute_called, subprocess_invoked, exit_status,
                   update_spawned>>

\* Fault: no command is turned down.
ScriptGateOff(r, script_list, cmd) == FALSE

\* main.rs 129-133: the command is turned down
ScriptGateRejects(r, script_list, cmd) ==
    /\ r.ecosystem = "NodeJs"
    /\ script_list.some
    /\ ~is_exact_match(cmd, [i \in 1..Len(script_list.val.scripts) |->
                                script_list.val.scripts[i].name])

\* main.rs 128-147.  The command line and package.json are read here for the
\* first time, so this is where the model draws them.
ValidateStep ==
    /\ pc = "selected"
    /\ \E cmd \in Commands :
       \E file \in (IF runner.ecosystem = "NodeJs" THEN PackageJsons ELSE {NoFile}) :
          LET script_list ==
                  IF runner.ecosystem = "NodeJs"
                  THEN get_scripts_for_runner(runner, tree[working_dir + 1], file)
                  ELSE None
          IN  /\ command' = cmd
              /\ package_json' = file
              /\ IF ScriptGateRejects(runner, script_list, cmd)
                 THEN Exit(GENERIC_ERROR, "ScriptNotFound")
                 ELSE /\ pc' = "validated"
                      /\ UNCHANGED <<exit_code, failure>>
    /\ UNCHANGED <<fsVars, fuzzyVars, runners, working_dir, runner, dry_run,
                   execute_called, subprocess_invoked, exit_status, update_spawned>>

\* main.rs 152-167
ExecuteStep ==
    /\ pc = "validated"
    /\ \E flag \in BOOLEAN :
       \E outcome \in (IF flag THEN {Ok(Exited(SUCCESS))} ELSE SpawnOutcomes) :
          LET done == execute(flag, outcome)
          IN  /\ dry_run' = flag
              /\ execute_called' = TRUE
              /\ subprocess_invoked' = done.invoked
              /\ IF done.result.ok
                 THEN /\ exit_status' = done.result.val
                      /\ pc' = "executed"
                      /\ UNCHANGED <<exit_code, failure>>
                 ELSE /\ Exit(exit_code_of(done.result.err), done.result.err)
                      /\ UNCHANGED exit_status
    /\ UNCHANGED <<fsVars, fuzzyVars, runners, working_dir, runner, command,
                   package_json, update_spawned>>

\* Fault: the child's status is dropped.
ExitCodeAlwaysSuccess(status) == SUCCESS

\* main.rs 195-198: exit_status.code().unwrap_or(GENERIC_ERROR)
ExitCodeOf(status) ==
    IF status.kind = "exited" THEN status.code ELSE GENERIC_ERROR

\* Fault: the early exit of a dry run is missing.
finish_without_dry_run_exit(flag, auto_update, status) ==
    [code |-> ExitCodeOf(status), update |-> auto_update]

\* main.rs 184-199: the code main exits with, and whether the background
\* update check is spawned before.
finish(flag, auto_update, status) ==
    IF flag THEN [code |-> SUCCESS, update |-> FALSE]
    ELSE [code |-> ExitCodeOf(status), update |-> auto_update]

\* main.rs 169-199; auto_update is config.get_auto_update() &&
\* !update::is_update_disabled().
FinishStep ==
    /\ pc = "executed"
    /\ \E auto_update \in BOOLEAN :
          LET end == finish(dry_run, auto_update, exit_status)
          IN  /\ update_spawned' = end.update
              /\ Exit(end.code, "none")
    /\ UNCHANGED <<fsVars, fuzzyVars, runners, working_dir, runner, command,
                   package_json, dry_run, execute_called, subprocess_invoked,
                   exit_status>>

Next == SearchStep \/ SelectStep \/ ValidateStep \/ ExecuteStep \/ FinishStep

Spec == Init /\ [][Next]_vars

\* main.rs 267-284: the nearest level within max where a detector matches,
\* nothing ignored.
RECURSIVE why_search(_, _, _, _)
why_search(fs, read_order, level, max) ==
    LET found == detect_all(fs[level + 1], read_order, {})
    IN  IF found # <<>> THEN [all_runners |-> found, found_level |-> level]
        ELSE IF level < max /\ level + 1 < Len(fs)
             THEN why_search(fs, read_order, level + 1, max)
             ELSE [all_runners |-> <<>>, found_level |-> 0]

\* What the why subcommand reports, and the code it exits with.
handle_why_command(fs, read_order, ignore, max) ==
    LET searched == why_search(fs, read_order, 0, max)
        filtered_runners ==
            SelectSeq(searched.all_runners, LAMBDA r : ~IsIgnored(ignore, r.name))
    IN  IF searched.all_runners = <<>>
        THEN [report |-> "No runner detected", selected |-> NoRunner,
              found_level |-> 0, code |-> RUNNER_NOT_FOUND]
        ELSE IF filtered_runners # <<>>
        THEN [report |-> "Using", selected |-> filtered_runners[1],
              found_level |-> searched.found_level, code |-> SUCCESS]
        ELSE [report |-> "All detected runners were ignored", selected |-> NoRunner,
              found_level |-> searched.found_level, code |-> SUCCESS]

\* main.rs 55-58: the why subcommand, handled before any dispatch
WhyStep ==
    /\ pc = "start"
    /\ LET told == handle_why_command(tree, makefile_first, ignore_list, max_levels)
       IN  /\ call' = [fn |-> "handle_why_command", ret |-> told]
           /\ Exit(told.code, IF told.code = SUCCESS THEN "none" ELSE "RunnerNotFound")
    /\ UNCHANGED <<fsVars, argA, argB, query, available, threshold, runners,
                   working_dir, runner, command, package_json, dry_run,
                   execute_called, subprocess_invoked, exit_status, update_spawned>>

\* ------------------------------------------------------------------ dispatch claims
\* main went past the script check (it passed or it turned the command down).
ValidationDone ==
    \/ pc \in {"validated", "executed"}
    \/ pc = "exit" /\ failure \in {"ScriptNotFound", "SpawnFailure", "none"}

\* A child was spawned, ended, and main ended on its normal path.
ChildRan ==
    /\ pc = "exit"
    /\ failure = "none"
    /\ ~dry_run
    /\ subprocess_invoked

\* C1 as claimed: whenever search, selection, validation and spawning succeed
\* in a run that is not a dry run, main exits with the child's own exit code,
\* however the child ended.
C1_ExitCodeIsChildsAlways ==
    ChildRan => exit_status.kind = "exited" /\ exit_code = exit_status.code

\* C1 as amended: main exits with the child's exit code whenever the child
\* ended with one; a child that ended without an exit code (a signal ended
\* it) makes main exit with GENERIC_ERROR.
C1_ExitCodeRelayed ==
    ChildRan =>
        /\ exit_status.kind = "exited" => exit_code = exit_status.code
        /\ exit_status.kind = "signaled" => exit_code = GENERIC_ERROR

C1_Witness ==
    /\ ChildRan
    /\ exit_status = Exited(255)
    /\ exit_code = 255

\* The names script discovery returned for the selected runner.
DiscoveredNames ==
    LET found == parse_package_json_scripts(tree[working_dir + 1], package_json)
    IN  [i \in 1..Len(found.val.scripts) |-> found.val.scripts[i].name]

SameIgnoringCase(s, t) ==
    /\ Len(s) = Len(t)
    /\ \A i \in 1..Len(s) : ToLowerChar(s[i]) = ToLowerChar(t[i])

CommandUnknown ==
    /\ runner.ecosystem = "NodeJs"
    /\ parse_package_json_scripts(tree[working_dir + 1], package_json).some
    /\ \A i \in 1..Len(DiscoveredNames) : ~SameIgnoringCase(command, DiscoveredNames[i])

\* C2: for a Node.js runner with a discovered script list, a command that
\* matches no discovered name, case ignored, ends the run with the generic
\* error before execute is called and without a subprocess, dry run or not;
\* for a runner of any other ecosystem the check never ends the run and
\* execute is reached.
C2_ScriptGate ==
    ValidationDone =>
        /\ CommandUnknown =>
              /\ pc = "exit"
              /\ failure = "ScriptNotFound"
              /\ exit_code = GENERIC_ERROR
              /\ ~execute_called
              /\ ~subprocess_invoked
        /\ runner.ecosystem # "NodeJs" =>
              /\ failure # "ScriptNotFound"
              /\ pc = "validated" \/ execute_called

C2_Witness ==
    /\ CommandUnknown
    /\ Len(DiscoveredNames) = 2
    /\ pc = "exit"
    /\ failure = "ScriptNotFound"
    /\ ~execute_called

\* C3: in a dry run in which execute returned successfully the subprocess
\* capability is never invoked, the background update check is never spawned,
\* and main exits with SUCCESS.
C3_DryRun ==
    (dry_run /\ execute_called /\ failure = "none") =>
        /\ ~subprocess_invoked
        /\ ~update_spawned
        /\ pc \in {"executed", "exit"}
        /\ pc = "exit" => exit_code = SUCCESS

C3_Witness ==
    /\ dry_run
    /\ execute_called
    /\ pc = "exit"
    /\ exit_code = SUCCESS
    /\ ~update_spawned
    /\ runner.name = "npm"

\* ------------------------------------------------------------------ resolution
\* Resolution alone (the search and the selection of main), over every
\* combination of the marker files of the swift, zig and make detectors.
ResolveMarkers == {"Package.swift", "build.zig", "Makefile", "makefile"}

InitResolve == InitTree(ResolveMarkers) /\ MainStart /\ FuzzyIdle

NextResolve == SearchStep \/ SelectStep

SpecResolve == InitResolve /\ [][NextResolve]_vars

\* Every DetectedRunner a detector can emit: what each marker file alone is
\* detected as.
Registered == {detect_all({m}, FALSE, {})[1] : m \in Markers}

MaxMatches == 3

\* The match lists selection can be handed: distinct runners in any order.
MatchLists ==
    {ms \in UNION {[1..n -> Registered] : n \in 0..MaxMatches} :
        \A i, j \in 1..Len(ms) : i # j => ms[i] # ms[j]}

\* Selection alone: main at the call of check_conflicts, with any match list.
InitSelect ==
    /\ tree = <<{}>>
    /\ makefile_first = FALSE
    /\ max_levels = 0
    /\ ignore_list = {}
    /\ ScriptFilesUnread
    /\ pc = "searched"
    /\ runners \in MatchLists
    /\ working_dir = 0
    /\ runner = NoRunner
    /\ command = <<>>
    /\ package_json = NoFile
    /\ dry_run = FALSE
    /\ execute_called = FALSE
    /\ subprocess_invoked = FALSE
    /\ exit_status = NoStatus
    /\ update_spawned = FALSE
    /\ exit_code = -1
    /\ failure = "none"
    /\ FuzzyIdle

NextSelect == SelectStep

SpecSelect == InitSelect /\ [][NextSelect]_vars

\* The tool each marker file stands for.
ToolOf(file) ==
    CASE file = "package.json" -> "npm"
      [] file = "Package.swift" -> "swift"
      [] file = "build.zig" -> "zig"
      [] OTHER -> "make"

\* The tools with a marker in the directory at a level that no entry of the
\* ignore list names, case ignored.
ExpectedTools(level) ==
    {ToolOf(f) : f \in tree[level + 1]}
        \ {AsciiLower(i) : i \in ignore_list}

SearchLevels == 0..Min2(max_levels, Len(tree) - 1)

MatchingLevels == {k \in SearchLevels : ExpectedTools(k) # {}}

\* C4: the search returns the matches of the nearest level within max_levels
\* that has a match left after the ignore filter, with that level's
\* directory, and fails with RunnerNotFound exactly when there is no such
\* level (the root included, when it comes before max_levels).
C4_NearestLevel ==
    pc # "start" =>
        /\ failure = "RunnerNotFound" <=> MatchingLevels = {}
        /\ failure # "RunnerNotFound" =>
              /\ working_dir \in MatchingLevels
              /\ \A k \in MatchingLevels : working_dir <= k
              /\ {runners[i].name : i \in 1..Len(runners)} = ExpectedTools(working_dir)
              /\ \A i \in 1..Len(runners) :
                    runners[i].detected_file \in tree[working_dir + 1]
              /\ \A i, j \in 1..Len(runners) :
                    i # j => runners[i].name # runners[j].name

\* The nearer level wins over a farther one that holds a runner of a lower
\* priority number.
C4_Witness ==
    /\ pc = "searched"
    /\ working_dir = 0
    /\ Len(runners) = 1
    /\ runners[1].name = "make"
    /\ max_levels >= 1
    /\ Len(tree) = 2
    /\ "Package.swift" \in tree[2]

\* C5: over a non-empty match list selection returns one member of the list,
\* of the smallest priority number, the first in the list's order among
\* several of that priority; over an empty list it fails with
\* NoRunnerAvailable and selects nothing.
C5_Selection ==
    /\ pc = "selected" =>
          /\ runners # <<>>
          /\ \E i \in 1..Len(runners) :
                /\ runner = runners[i]
                /\ \A j \in 1..Len(runners) : runners[i].priority <= runners[j].priority
                /\ \A j \in 1..(i - 1) : runners[j].priority > runners[i].priority
    /\ pc = "exit" =>
          /\ runners = <<>>
          /\ failure = "NoRunnerAvailable"
          /\ runner = NoRunner
    /\ runners = <<>> => pc # "selected"

C5_Witness ==
    /\ pc = "selected"
    /\ Len(runners) = 3
    /\ runners[1].name = "make"
    /\ runners[2].name = "make"
    /\ runner = runners[3]

MakeMarkers == {"Makefile", "makefile"}

SpecificMarkers == {"package.json", "Package.swift", "build.zig"}

PrioritiesDistinct ==
    /\ \A r1, r2 \in Registered : r1.name = r2.name <=> r1.priority = r2.priority
    /\ \A r \in Registered : r.name # "make" => r.priority < MakePriority
    /\ \E r \in Registered : r.name = "make" /\ r.priority = MakePriority

\* C6 as claimed: the priorities are distinct and constant and make's is the
\* largest, so wherever a Makefile stands beside the marker of a more specific
\* ecosystem selection does not pick make.
C6_NeverMakeBesideSpecific ==
    /\ PrioritiesDistinct
    /\ (/\ pc = "selected"
        /\ tree[working_dir + 1] \cap MakeMarkers # {}
        /\ tree[working_dir + 1] \cap SpecificMarkers # {})
          => runner.name # "make"

\* C6 as amended: the same, wherever the Makefile stands beside the marker of
\* a more specific ecosystem whose runner the ignore list does not exclude.
C6_NeverMakeBesideKeptSpecific ==
    /\ PrioritiesDistinct
    /\ (/\ pc = "selected"
        /\ tree[working_dir + 1] \cap MakeMarkers # {}
        /\ ExpectedTools(working_dir) \ {"make"} # {})
          => runner.name # "make"

C6_Witness ==
    /\ pc = "selected"
    /\ {"makefile", "build.zig"} \subseteq tree[working_dir + 1]
    /\ Len(runners) = 2
    /\ runner.name = "zig"
    /\ "swift" \in ignore_list

\* ------------------------------------------------------------------ fuzzy calls
MainIdle ==
    /\ tree = <<{}>>
    /\ makefile_first = FALSE
    /\ max_levels = 0
    /\ ignore_list = {}
    /\ ScriptFilesUnread
    /\ pc = "idle"
    /\ runners = <<>>
    /\ working_dir = 0
    /\ runner = NoRunner
    /\ command = <<>>
    /\ package_json = NoFile
    /\ dry_run = FALSE
    /\ execute_called = FALSE
    /\ subprocess_invoked = FALSE
    /\ exit_status = NoStatus
    /\ update_spawned = FALSE
    /\ exit_code = -1
    /\ failure = "none"

mainVars == <<tree, makefile_first, max_levels, ignore_list, pc, runners,
              working_dir, runner, command, package_json, dry_run, execute_called,
              subprocess_invoked, exit_status, update_spawned, exit_code, failure,
              pyproject_toml, makefile_text>>

\* Distance and similarity, over every pair of strings.
InitFuzzy ==
    /\ MainIdle
    /\ argA \in Strs
    /\ argB \in Strs
    /\ query = <<>>
    /\ available = <<>>
    /\ threshold = One
    /\ call = NoCall

CallDistance ==
    /\ call = NoCall
    /\ call' = [fn |-> "levenshtein_distance",
                ret |-> levenshtein_distance(argA, argB)]
    /\ UNCHANGED <<mainVars, argA, argB, query, available, threshold>>

CallSimilarity ==
    /\ call = NoCall
    /\ call' = [fn |-> "similarity_score", ret |-> similarity_score(argA, argB)]
    /\ UNCHANGED <<mainVars, argA, argB, query, available, threshold>>

NextFuzzy == CallDistance \/ CallSimilarity

SpecFuzzy == InitFuzzy /\ [][NextFuzzy]_vars

\* Ranking, over every query and every list of candidates from a pool.
MaxCands == 3

CandPool == {<<"a">>, <<"A">>, <<"e_acute">>, <<"e_acute", "a">>,
             <<"a", "a", "e_acute">>}

\* Script names are the keys of a map: the candidates of a list are distinct.
CandLists ==
    {cs \in UNION {[1..n -> CandPool] : n \in 0..MaxCands} :
        \A i, j \in 1..Len(cs) : i # j => cs[i] # cs[j]}

Zero == [n |-> 0, d |-> 1]

Thresholds == {Zero, Half, One}

InitRank ==
    /\ MainIdle
    /\ argA = <<>>
    /\ argB = <<>>
    /\ query \in Strs
    /\ available \in CandLists
    /\ threshold \in Thresholds
    /\ call = NoCall

CallFindSimilar ==
    /\ call = NoCall
    /\ call' = [fn |-> "find_similar_scripts",
                ret |-> find_similar_scripts(query, available, threshold)]
    /\ UNCHANGED <<mainVars, argA, argB, query, available, threshold>>

CallSuggest ==
    /\ call = NoCall
    /\ call' = [fn |-> "suggest_script", ret |-> suggest_script(query, available)]
    /\ UNCHANGED <<mainVars, argA, argB, query, available, threshold>>

NextRank == CallFindSimilar \/ CallSuggest

SpecRank == InitRank /\ [][NextRank]_vars

\* ------------------------------------------------------------------ fuzzy claims
\* The strings one insertion, deletion or substitution of a character away.
OneEdit(s) ==
    {SubSeq(s, 1, i) \o <<c>> \o SubSeq(s, i + 1, Len(s)) :
        i \in 0..Len(s), c \in Chars}
    \cup {SubSeq(s, 1, i - 1) \o SubSeq(s, i + 1, Len(s)) : i \in 1..Len(s)}
    \cup {[s EXCEPT ![i] = c] : i \in 1..Len(s), c \in Chars}

\* The strings the edits may pass through: one character longer than the
\* longest string compared, at most.
Passable == UNION {[1..n -> Chars] : n \in 0..(MaxLen + 1)}

Neighbours == [s \in Passable |-> OneEdit(s) \cap Passable]

\* The least number of edits that turn s into t, where seen holds the strings
\* at most n edits from s and frontier those exactly n edits from it.
RECURSIVE EditsFrom(_, _, _, _)
EditsFrom(seen, frontier, t, n) ==
    IF t \in frontier THEN n
    ELSE LET next == UNION {Neighbours[x] : x \in frontier} \ seen
         IN  EditsFrom(seen \cup next, next, t, n + 1)

MinEdits(s, t) == EditsFrom({s}, {s}, t, 0)

\* C7: levenshtein_distance(a, b) is the least number of insertions,
\* deletions and substitutions of single characters (code points) that turn
\* a into b.
C7_DistanceIsMinEdits ==
    call.fn = "levenshtein_distance" => call.ret = MinEdits(argA, argB)

C7_Witness ==
    /\ call.fn = "levenshtein_distance"
    /\ argA = <<"a", "e_acute", "a">>
    /\ argB = <<"e_acute", "A">>
    /\ call.ret = 2

\* C8: distance(a, a) = 0, distance(a, "") = distance("", a) = length(a), and
\* distance(a, b) = distance(b, a).
C8_DistanceLaws ==
    call.fn = "levenshtein_distance" =>
        /\ argA = argB => call.ret = 0
        /\ argB = <<>> => call.ret = Len(argA)
        /\ argA = <<>> => call.ret = Len(argB)
        /\ call.ret = levenshtein_distance(argB, argA)

C8_Witness ==
    /\ call.fn = "levenshtein_distance"
    /\ argA = <<"A", "a", "e_acute">>
    /\ argB = <<"a">>
    /\ call.ret = 2

\* C9: similarity(a, b) is 1 - distance(a, b) / max(len(a), len(b)), distance
\* and len both in code points, 1 when both strings are empty, 1 when a = b,
\* and within 0..1.
C9_SimilarityByCodePoints ==
    call.fn = "similarity_score" =>
        LET longest == Max2(Len(argA), Len(argB))
        IN  /\ longest = 0 => ScoreEq(call.ret, One)
            /\ longest > 0 =>
                  ScoreEq(call.ret,
                          [n |-> longest - levenshtein_distance(argA, argB),
                           d |-> longest])
            /\ argA = argB => ScoreEq(call.ret, One)
            /\ ScoreGeq(call.ret, Zero)
            /\ ScoreGeq(One, call.ret)

\* The score ranking gives candidate i: the similarity of the lowercased query
\* and the lowercased candidate.
RankScore(i) == similarity_score(to_lowercase(query), to_lowercase(available[i]))

Kept == {i \in 1..Len(available) : ScoreGeq(RankScore(i), threshold)}

\* The candidates of Kept, one result each.
ReturnsKept(out) ==
    /\ Len(out) = Cardinality(Kept)
    /\ \A k \in 1..Len(out) :
          /\ \E i \in Kept : out[k].script = available[i]
                               /\ ScoreEq(out[k].score, RankScore(i))
          /\ ScoreGeq(out[k].score, threshold)
    /\ \A i \in Kept :
          Cardinality({k \in 1..Len(out) : out[k].script = available[i]})
              = Cardinality({j \in Kept : available[j] = available[i]})

\* C10 as claimed: ranking returns exactly the candidates that score at least
\* the threshold, none below it, in strictly descending order of score.
C10_RankStrictlyDescending ==
    call.fn = "find_similar_scripts" =>
        /\ ReturnsKept(call.ret)
        /\ \A k, l \in 1..Len(call.ret) :
              k < l => ScoreGt(call.ret[k].score, call.ret[l].score)

\* C10 as amended: the same, in descending order of score in which equal
\* scores may follow each other.
C10_RankDescending ==
    call.fn = "find_similar_scripts" =>
        /\ ReturnsKept(call.ret)
        /\ \A k, l \in 1..Len(call.ret) :
              k < l => ScoreGeq(call.ret[k].score, call.ret[l].score)

C10_Witness ==
    /\ call.fn = "find_similar_scripts"
    /\ Len(available) = 3
    /\ Len(call.ret) = 2
    /\ call.ret[1].script # call.ret[2].script
    /\ call.ret[1].script = available[3]
    /\ ScoreGt(call.ret[1].score, call.ret[2].score)

\* The similarity of two strings with the distance and the lengths both in
\* code points.
SimilarityInCodePoints(s, t) ==
    LET longest == Max2(Len(s), Len(t))
    IN  IF longest = 0 THEN One
        ELSE [n |-> longest - levenshtein_distance(s, t), d |-> longest]

\* The case-insensitive similarity of the query and candidate i.
CaseInsensitiveSimilarity(i) ==
    SimilarityInCodePoints(to_lowercase(query), to_lowercase(available[i]))

Reaching == {i \in 1..Len(available) : ScoreGeq(CaseInsensitiveSimilarity(i), Half)}

\* C11: suggest_script returns a candidate of the greatest case-insensitive
\* similarity to the query, the earliest of the list among equals, when that
\* similarity is at least 0.5, and none exactly when no candidate reaches 0.5
\* or the list is empty; what it returns is a candidate in its own casing.
C11_SuggestsMostSimilar ==
    call.fn = "suggest_script" =>
        /\ call.ret = None <=> Reaching = {}
        /\ call.ret # None =>
              \E i \in Reaching :
                  /\ call.ret = Some(available[i])
                  /\ \A j \in 1..Len(available) :
                        ScoreGeq(CaseInsensitiveSimilarity(i),
                                 CaseInsensitiveSimilarity(j))
                  /\ \A j \in 1..(i - 1) :
                        ScoreGt(CaseInsensitiveSimilarity(i),
                                CaseInsensitiveSimilarity(j))

\* ------------------------------------------------------------------ script discovery
\* main is not running while the discovery functions are called.
MainAside ==
    /\ makefile_first = FALSE
    /\ max_levels = 0
    /\ ignore_list = {}
    /\ pc = "idle"
    /\ runners = <<>>
    /\ working_dir = 0
    /\ runner = NoRunner
    /\ command = <<>>
    /\ dry_run = FALSE
    /\ execute_called = FALSE
    /\ subprocess_invoked = FALSE
    /\ exit_status = NoStatus
    /\ update_spawned = FALSE
    /\ exit_code = -1
    /\ failure = "none"

\* The project directory of a discovery call.
project_dir == tree[1]

ProjectFiles == {"package.json", "Cargo.toml", "pyproject.toml", "Makefile", "makefile"}

\* The lines of a makefile: short lines, and rules, recipes, comments and
\* assignments.
ShortLines == {<<>>, <<"a">>, <<"colon">>, <<"tab">>, <<"dot">>}

RuleLines ==
    {<<"a", "colon">>,
     <<"a", "space", "colon">>,
     <<"a", "colon", "space", "a">>,
     <<"a", "space", "a", "colon">>,
     <<"a", "colon", "colon">>,
     <<"colon", "space", "a">>,
     <<"dot", "a", "colon", "space", "a">>,
     <<"dollar", "a", "colon">>,
     <<"a", "dollar", "colon">>,
     <<"tab", "a", "colon">>,
     <<"tab", "a">>,
     <<"space", "a", "colon">>,
     <<"hash", "a", "colon">>}

AssignmentOps ==
    {<<"equals">>, <<"colon", "equals">>, <<"colon", "colon", "equals">>,
     <<"question", "equals">>, <<"plus", "equals">>}

\* NAME op v for each operator, and NAME=v, NAME:=v and a value with a colon.
AssignmentLines ==
    {<<"a", "space">> \o op \o <<"space", "a">> : op \in AssignmentOps}
    \cup {<<"a", "equals", "a">>,
          <<"a", "colon", "equals", "a">>,
          <<"a", "space", "equals", "space", "a", "colon", "a">>}

MakeLines == ShortLines \cup RuleLines \cup AssignmentLines

MaxLines == 2

\* The lines one after the other, each ended by a newline.
RECURSIVE Terminated(_)
Terminated(ls) ==
    IF ls = <<>> THEN <<>> ELSE Head(ls) \o <<"nl">> \o Terminated(Tail(ls))

\* The texts of up to n lines, the last line ended by a newline or not.
MakefileContents(n) ==
    LET lists == UNION {[1..k -> MakeLines] : k \in 0..n}
    IN  {Terminated(ls) : ls \in lists}
        \cup {SubSeq(Terminated(ls), 1, Len(Terminated(ls)) - 1) :
                 ls \in lists \ {<<>>}}

MakefileTexts(n) == {NoText} \cup {TextFile(TRUE, c) : c \in MakefileContents(n)}

\* The makefiles of the directories that hold several configuration files.
FewMakefileTexts ==
    {NoText, TextFile(TRUE, <<>>),
     TextFile(TRUE, <<"a", "colon", "nl">>),
     TextFile(TRUE, <<"a", "colon", "equals", "a", "nl", "tab", "a">>),
     TextFile(TRUE, <<"dot", "a", "colon", "nl", "a", "colon", "nl", "a", "a",
                      "colon">>)}

HasMakefile(dir) == "Makefile" \in dir \/ "makefile" \in dir

\* Every directory of configuration files, and a content for each file in it.
InitDiscover ==
    /\ MainAside
    /\ FuzzyIdle
    /\ tree \in {<<dir>> : dir \in SUBSET ProjectFiles}
    /\ package_json \in
          (IF "package.json" \in tree[1] THEN PackageJsons ELSE {NoFile})
    /\ pyproject_toml \in
          (IF "pyproject.toml" \in tree[1] THEN PyProjects ELSE {NoToml})
    /\ makefile_text \in
          (IF HasMakefile(tree[1]) THEN FewMakefileTexts ELSE {NoText})

\* Every makefile, in a directory with no other configuration file.
InitMakefile ==
    /\ MainAside
    /\ FuzzyIdle
    /\ tree \in {<<dir>> : dir \in SUBSET {"Makefile", "makefile"}}
    /\ package_json = NoFile
    /\ pyproject_toml = NoToml
    /\ makefile_text \in
          (IF HasMakefile(tree[1]) THEN MakefileTexts(MaxLines) ELSE {NoText})

CallParsePackageJson ==
    /\ call = NoCall
    /\ call' = [fn |-> "parse_package_json_scripts",
                ret |-> parse_package_json_scripts(project_dir, package_json)]
    /\ UNCHANGED <<mainVars, argA, argB, query, available, threshold>>

CallParseCargo ==
    /\ call = NoCall
    /\ call' = [fn |-> "parse_cargo_targets",
                ret |-> parse_cargo_targets(project_dir)]
    /\ UNCHANGED <<mainVars, argA, argB, query, available, threshold>>

CallParsePyproject ==
    /\ call = NoCall
    /\ call' = [fn |-> "parse_pyproject_scripts",
                ret |-> parse_pyproject_scripts(project_dir, pyproject_toml)]
    /\ UNCHANGED <<mainVars, argA, argB, query, available, threshold>>

CallParseMakefile ==
    /\ call = NoCall
    /\ call' = [fn |-> "parse_makefile_targets",
                ret |-> parse_makefile_targets(project_dir, makefile_text)]
    /\ UNCHANGED <<mainVars, argA, argB, query, available, threshold>>

CallDiscoverAll ==
    /\ call = NoCall
    /\ call' = [fn |-> "discover_all_scripts",
                ret |-> discover_all_scripts(project_dir, package_json,
                                             pyproject_toml, makefile_text)]
    /\ UNCHANGED <<mainVars, argA, argB, query, available, threshold>>

NextDiscover ==
    \/ CallParsePackageJson
    \/ CallParseCargo
    \/ CallParsePyproject
    \/ CallParseMakefile
    \/ CallDiscoverAll

SpecDiscover == InitDiscover /\ [][NextDiscover]_vars

NextMakefile == CallParseMakefile

SpecMakefile == InitMakefile /\ [][NextMakefile]_vars

\* ------------------------------------------------------------------ discovery claims
\* The keys of the scripts object of package.json.
Keys == {package_json.entries[i].name : i \in 1..Len(package_json.entries)}

\* C12: parse_package_json_scripts returns a result exactly when package.json
\* exists, reads and parses as JSON, and has a top-level scripts value that
\* is an object; the result then names package.json as its source file and
\* holds one entry for each key of the object and no other, none for an
\* object without keys.
C12_PackageJsonResult ==
    call.fn = "parse_package_json_scripts" =>
        /\ call.ret.some <=>
              /\ "package.json" \in project_dir
              /\ package_json.parses
              /\ package_json.kind = "object"
        /\ call.ret.some =>
              /\ call.ret.val.source_file = "package.json"
              /\ Len(call.ret.val.scripts) = Cardinality(Keys)
              /\ \A key \in Keys :
                    \E i \in 1..Len(call.ret.val.scripts) :
                        call.ret.val.scripts[i].name = key

C12_Witness ==
    /\ call.fn = "parse_package_json_scripts"
    /\ package_json.kind = "object"
    /\ package_json.entries = <<>>
    /\ call.ret = Some([scripts |-> <<>>, source_file |-> "package.json"])

\* The lines of the makefile read.
FileLines == str_lines(makefile_text.content)

\* The text of a line before its first colon, without the blanks around it.
BeforeColon(line) ==
    LET colon == CHOOSE i \in 1..Len(line) :
                     line[i] = "colon" /\ \A j \in 1..(i - 1) : line[j] # "colon"
    IN  trim(SubSeq(line, 1, colon - 1))

Qualifies(line) ==
    /\ line # <<>> => line[1] \notin {"tab", "space", "hash"}
    /\ \E i \in 1..Len(line) : line[i] = "colon"
    /\ BeforeColon(line) # <<>>
    /\ BeforeColon(line)[1] # "dot"
    /\ \A i \in 1..Len(BeforeColon(line)) :
          BeforeColon(line)[i] \notin {"equals", "dollar"}

\* C13: of a makefile that is read, parse_makefile_targets returns in file
\* order one script for each line that does not begin with a tab, a space or
\* '#', holds a ':', and whose text before the first ':', trimmed, is not
\* empty, does not begin with '.' and holds neither '=' nor '$'; the script
\* is named by that text and its command is "make <name>"; no recipe line
\* and no special target is returned, and there is no result when no line
\* qualifies.
C13_MakefileTargets ==
    (call.fn = "parse_makefile_targets" /\ HasMakefile(project_dir)
        /\ makefile_text.reads) =>
        LET qualifying == SelectSeq(FileLines, Qualifies)
        IN  /\ call.ret.some <=> qualifying # <<>>
            /\ call.ret.some =>
                  /\ Len(call.ret.val.scripts) = Len(qualifying)
                  /\ \A i \in 1..Len(qualifying) :
                        /\ call.ret.val.scripts[i].name = BeforeColon(qualifying[i])
                        /\ call.ret.val.scripts[i].command
                              = <<"m", "a", "k", "e", "space">>
                                    \o BeforeColon(qualifying[i])
                        /\ call.ret.val.scripts[i].name[1] # "dot"

\* A special target, then a rule with a blank before its colon.
C13_Witness ==
    /\ call.fn = "parse_makefile_targets"
    /\ makefile_text.content
          = <<"dot", "a", "colon", "space", "a", "nl", "a", "space", "colon">>
    /\ call.ret.some
    /\ Len(call.ret.val.scripts) = 1
    /\ call.ret.val.scripts[1].name = <<"a">>

\* C14: discover_all_scripts runs the four strategies (package.json,
\* Cargo.toml, pyproject.toml, Makefile) whatever ecosystem the directory is
\* of, returning what each finds, and every ScriptList it returns holds at
\* least one script.
C14_DiscoverAllNonEmpty ==
    call.fn = "discover_all_scripts" =>
        /\ call.ret
              = Pushed(parse_package_json_scripts(project_dir, package_json))
                  \o Pushed(parse_cargo_targets(project_dir))
                  \o Pushed(parse_pyproject_scripts(project_dir, pyproject_toml))
                  \o Pushed(parse_makefile_targets(project_dir, makefile_text))
        /\ \A i \in 1..Len(call.ret) : call.ret[i].scripts # <<>>

\* The ScriptLists a discovery call produced.
Produced ==
    IF call.fn = "discover_all_scripts" THEN call.ret
    ELSE IF call.fn \in {"parse_package_json_scripts", "parse_cargo_targets",
                         "parse_pyproject_scripts", "parse_makefile_targets"}
            /\ call.ret.some
    THEN <<call.ret.val>>
    ELSE <<>>

\* The makefile the Makefile strategy reads.
MakefileRead == IF "Makefile" \in project_dir THEN "Makefile" ELSE "makefile"

\* C15: the source_file of every ScriptList script discovery produces is the
\* name of the configuration file the scripts were read from, a file of the
\* project directory; where the Makefile strategy reads a lowercase makefile,
\* no Makefile being there, the source_file names that file.
C15_SourceFileIsFileRead ==
    /\ \A i \in 1..Len(Produced) :
          Produced[i].source_file
              \in {"package.json", "Cargo.toml", "pyproject.toml", MakefileRead}
                      \cap project_dir
    /\ (call.fn = "parse_makefile_targets" /\ call.ret.some) =>
          call.ret.val.source_file = MakefileRead

\* The makefile without the lines that are variable assignments.
WithoutAssignments ==
    TextFile(makefile_text.reads,
             Terminated(SelectSeq(FileLines, LAMBDA l : l \notin AssignmentLines)))

\* C16: no line that is a variable assignment (NAME = v, NAME := v,
\* NAME ::= v, NAME ?= v, NAME += v, from the first column) is surfaced by
\* parse_makefile_targets as a script: the makefile yields what it yields
\* without its assignment lines.
C16_AssignmentsNotSurfaced ==
    call.fn = "parse_makefile_targets" =>
        call.ret = parse_makefile_targets(project_dir, WithoutAssignments)

\* The subprocess was invoked for a Node.js runner whose script list was
\* discovered.
NodeDispatched ==
    /\ subprocess_invoked
    /\ runner.ecosystem = "NodeJs"
    /\ parse_package_json_scripts(tree[working_dir + 1], package_json).some

\* C17 as claimed: whenever the subprocess is dispatched for a Node.js runner
\* whose script list was discovered, the command handed to execute is,
\* character for character, the name of one of the discovered scripts.
C17_CommandIsDiscoveredName ==
    NodeDispatched =>
        \E i \in 1..Len(DiscoveredNames) : DiscoveredNames[i] = command

\* C17 as amended: whenever the subprocess is dispatched for a Node.js runner
\* whose script list was discovered, the lowercase form of the command handed
\* to execute is the lowercase form of the name of one of the discovered
\* scripts.
C17_CommandMatchesIgnoringCase ==
    NodeDispatched =>
        \E i \in 1..Len(DiscoveredNames) :
            to_lowercase(DiscoveredNames[i]) = to_lowercase(command)

\* A command that is no discovered name is dispatched.
C17_Witness ==
    /\ NodeDispatched
    /\ command = <<"a">>
    /\ DiscoveredNames = <<<<"A">>, <<"a", "e_acute">>>>

\* ------------------------------------------------------------------ why
\* The why subcommand alone, over the trees of resolution.
NextWhy == WhyStep

SpecWhy == InitResolve /\ [][NextWhy]_vars

\* C18: for every tree, max_levels and ignore list, why reports as "Using"
\* the runner, at the level, that dispatch (search_runners with the ignore
\* list, then check_conflicts) uses, and reports that all detected runners
\* were ignored only where dispatch finds no runner.
C18_WhyAgreesWithDispatch ==
    call.fn = "handle_why_command" =>
        LET found == search_runners(tree, makefile_first, max_levels, ignore_list)
            dispatched == found.ok /\ check_conflicts(found.val.runners).ok
        IN  /\ dispatched <=> call.ret.report = "Using"
            /\ dispatched =>
                  /\ call.ret.selected = check_conflicts(found.val.runners).val
                  /\ call.ret.found_level = found.val.dir
            /\ call.ret.report = "All detected runners were ignored" => ~dispatched

====
